---- MODULE Spec2Model ----
(***************************************************************************)
(* InstaLookAlike backend: the express routers of routes/auth.js,          *)
(* routes/posts.js and routes/users.js over the sqlite store whose schema  *)
(* server.js creates.  One action is one turn of the event loop: the       *)
(* synchronous part of a request (middleware up to the first db call), or  *)
(* the execution of one sql statement together with its callback.          *)
(***************************************************************************)
EXTENDS Integers, Sequences, FiniteSets, Bags, TLC

VARIABLES users, userSeq, posts, postSeq, likes, follows, comments, commentSeq,
          files, fkOn, reqs, quota, browser

vars == <<users, userSeq, posts, postSeq, likes, follows, comments, commentSeq,
          files, fkOn, reqs, quota, browser>>

store == <<users, userSeq, posts, postSeq, likes, follows, comments, commentSeq, files>>

-----------------------------------------------------------------------------
(* Bounds *)

\* number of requests the server holds at the same time (being handled, or
\* answered with the answer not yet taken by the client)
MaxInFlight == 2
\* path parameters :postId and :userId range over "1" .. "MaxId"
MaxId == 1
\* number of requests the clients send in the runs that bound it
SocialQuota == 2
GateQuota == 1
AuthQuota == 3
LikesQuota == 3
FollowsQuota == 3
ProfileQuota == 2
PostsQuota == 2
CommentsQuota == 2
ApiQuota == 1
StandaloneQuota == 2
ToggleQuota == 2
IdentityQuota == 1
UserPostsQuota == 2
LiveQuota == 1
HomeQuota == 3

Ids == 1..MaxId

-----------------------------------------------------------------------------
(* JavaScript values.  A path parameter is a string, an id inside a token  *)
(* payload or a sqlite row is a number; === compares type and value.       *)

(* A string is kept either as the number it spells (path ids) or as its    *)
(* characters (the fields of a json body).                                 *)

NotANumber == 0 - 1

Num(n) == [t |-> "number", n |-> n, s |-> << >>]
Str(n) == [t |-> "string", n |-> n, s |-> << >>]
Text(chars) == [t |-> "string", n |-> NotANumber, s |-> chars]
Undefined == [t |-> "undefined", n |-> NotANumber, s |-> << >>]

\* the texts the clients of the runs use
Alice == <<"a", "l", "i", "c", "e">>
Bob == <<"b", "o", "b">>
AliceMail == <<"a", "@", "x", ".", "c">>
BobMail == <<"b", "@", "x", ".", "c">>
Secret1 == <<"s", "e", "c", "r", "e", "t">>
Secret2 == <<"h", "u", "n", "t", "e", "r">>
Carol == <<"c", "a", "r", "o", "l">>
CarolMail == <<"c", "@", "x", ".", "c">>

StrictEq(a, b) == a.t = b.t /\ a.n = b.n /\ a.s = b.s

\* !x for the values above: undefined, the empty string and 0 are falsy
Falsy(x) == \/ x.t = "undefined"
            \/ x.t = "string" /\ x.n = NotANumber /\ x.s = << >>
            \/ x.t = "number" /\ x.n = 0

\* x.length: the number of characters of a string, undefined for a number
Length(x) == IF x.t = "string" THEN Num(Len(x.s)) ELSE Undefined

\* a < b: a comparison with undefined (NaN) is false
LessThan(a, b) == a.t = "number" /\ b.t = "number" /\ a.n < b.n

\* sqlite INTEGER affinity: a numeric string bound to an INTEGER column is
\* stored and compared as the integer it spells
ToInteger(v) == v.n

-----------------------------------------------------------------------------
(* jsonwebtoken *)

JWT_SECRET == "your_jwt_secret"

NoUser == [id |-> Undefined, username |-> Undefined]
NoToken == [kind |-> "none", payload |-> NoUser, key |-> ""]

JwtSign(payload, secret) == [kind |-> "jwt", payload |-> payload, key |-> secret]

JwtVerify(token, secret) ==
    IF token.kind = "jwt" /\ token.key = secret
    THEN [err |-> FALSE, user |-> token.payload]
    ELSE [err |-> TRUE, user |-> NoUser]

\* the Authorization header: absent, or its second space-separated word
NoHeader == [set |-> FALSE, word |-> NoToken]
Bearer(token) == [set |-> TRUE, word |-> token]

\* authHeader && authHeader.split(' ')[1]
HeaderToken(header) == IF header.set THEN header.word ELSE NoToken

\* a middleware that decodes the token without verifying its signature
AuthenticateToken_Unverified(header) ==
    LET token == HeaderToken(header) IN
    IF token.kind = "none"
    THEN [status |-> 401, error |-> "Authentication required", user |-> NoUser]
    ELSE [status |-> 0, error |-> "", user |-> token.payload]

\* authenticateToken: status 0 stands for next()
AuthenticateToken(header) ==
    LET token == HeaderToken(header) IN
    IF token.kind = "none"
    THEN [status |-> 401, error |-> "Authentication required", user |-> NoUser]
    ELSE LET v == JwtVerify(token, JWT_SECRET) IN
         IF v.err
         THEN [status |-> 403, error |-> "Invalid token", user |-> NoUser]
         ELSE [status |-> 0, error |-> "", user |-> v.user]

-----------------------------------------------------------------------------
(* bcrypt: a hash is opaque and matches exactly the text it was made of    *)

\* bcrypt.hash and bcrypt.compare reject data that is not a string
BcryptThrows(data) == data.t # "string"

\* bcrypt.hash(password, 10)
BcryptHash(data) == [alg |-> "bcrypt", of |-> data.s]

\* bcrypt.compare(password, user.password)
BcryptCompare(data, hash) == hash.of = data.s

-----------------------------------------------------------------------------
(* The sqlite store *)

\* columns hold the characters of a text, << >> for NULL
UserRow(id, username, email, password) ==
    [id |-> id, username |-> username, email |-> email, password |-> password,
     bio |-> << >>, profile_picture |-> 0]

NoHash == [alg |-> "none", of |-> << >>]
NoRow == UserRow(0, << >>, << >>, NoHash)

\* the row with the least rowid, which db.get hands to its callback
FirstRow(rows) == CHOOSE u \in rows : \A v \in rows : u.id <= v.id

\* SELECT * FROM users WHERE username = ? OR email = ?
SelectUserByNameOrEmail(username, email) ==
    {u \in users : \/ username.t = "string" /\ u.username = username.s
                   \/ email.t = "string" /\ u.email = email.s}

\* SELECT * FROM users WHERE email = ?   (undefined is bound as NULL)
SelectUserByEmail(email) == {u \in users : email.t = "string" /\ u.email = email.s}

\* a users table created without UNIQUE on username and email
UserConflict_Dropped(username, email) == FALSE

\* username TEXT UNIQUE NOT NULL, email TEXT UNIQUE NOT NULL
UserConflict(username, email) ==
    \E u \in users : u.username = username \/ u.email = email

\* INSERT INTO users (username, email, password) VALUES (?, ?, ?)
\* id INTEGER PRIMARY KEY AUTOINCREMENT: lastID is one more than any id given
InsertUser(username, email, hashed) ==
    IF UserConflict(username.s, email.s)
    THEN [err |-> "UNIQUE constraint failed", table |-> users, lastID |-> userSeq]
    ELSE [err |-> "", lastID |-> userSeq + 1,
          table |-> users \cup {UserRow(userSeq + 1, username.s, email.s, hashed)}]

UserExists(id) == \E u \in users : u.id = id
PostExists(id) == \E p \in posts : p.id = id

LikeRow(u, p) == [user_id |-> ToInteger(u), post_id |-> ToInteger(p)]
FollowRow(a, b) == [follower_id |-> ToInteger(a), following_id |-> ToInteger(b)]

\* a table created without its UNIQUE(...) constraint
UniqueViolated_Dropped(table, row) == FALSE

\* UNIQUE(...) of a table kept as a bag of rows
UniqueViolated(table, row) == BagIn(row, table)

\* SELECT * FROM likes WHERE user_id = ? AND post_id = ?
SelectLike(u, p) == BagIn(LikeRow(u, p), likes)

\* a DELETE that removes nothing
DeleteRow_Nothing(table, row) == table

\* DELETE FROM t WHERE <both columns match row>
DeleteRow(table, row) == [r \in (DOMAIN table) \ {row} |-> table[r]]

\* INSERT INTO likes (user_id, post_id) VALUES (?, ?)
InsertLike(u, p) ==
    LET row == LikeRow(u, p) IN
    IF UniqueViolated(likes, row)
    THEN [err |-> "UNIQUE constraint failed", table |-> likes]
    ELSE IF fkOn /\ ~(UserExists(row.user_id) /\ PostExists(row.post_id))
    THEN [err |-> "FOREIGN KEY constraint failed", table |-> likes]
    ELSE [err |-> "", table |-> likes (+) SetToBag({row})]

\* INSERT INTO follows (follower_id, following_id) VALUES (?, ?)
InsertFollow(a, b) ==
    LET row == FollowRow(a, b) IN
    IF UniqueViolated(follows, row)
    THEN [err |-> "UNIQUE constraint failed", table |-> follows]
    ELSE IF fkOn /\ ~(UserExists(row.follower_id) /\ UserExists(row.following_id))
    THEN [err |-> "FOREIGN KEY constraint failed", table |-> follows]
    ELSE [err |-> "", table |-> follows (+) SetToBag({row})]

-----------------------------------------------------------------------------
(* Requests and responses.  reqs is the bag of requests the server holds: *)
(* pc says where the handler chain of a request stands, "done" that it was *)
(* answered (status and json are the answer).                              *)

Json(error, action, message) ==
    [error |-> error, action |-> action, message |-> message, details |-> "",
     token |-> NoToken, id |-> Undefined, username |-> Undefined, data |-> {},
     list |-> << >>]

\* res.json(rows): the rows of a query (their order is not kept here)
RowsJson(rows) == [Json("", "", "") EXCEPT !.data = rows]

\* the file part of a multipart body
NoFile == [present |-> FALSE, ext |-> "", size |-> 0]
File(ext, size) == [present |-> TRUE, ext |-> ext, size |-> size]

NoBody == [username |-> Undefined, email |-> Undefined, password |-> Undefined,
           caption |-> Undefined, content |-> Undefined, bio |-> Undefined,
           user_id |-> Undefined, file |-> NoFile]

NewRequest(route, header, param, body) ==
    [route |-> route, pc |-> "auth", header |-> header, param |-> param,
     body |-> body, user |-> NoUser, row |-> NoRow, hashed |-> NoHash,
     lastID |-> 0, filename |-> 0,
     overlap |-> FALSE, reads |-> 0, writes |-> 0, stored |-> 0,
     status |-> 0, json |-> Json("", "", "")]

\* a handler that takes the user id of the body when the body has one
ActingUser_FromBody(r) ==
    IF r.body.user_id.t # "undefined" THEN r.body.user_id ELSE r.user.id

\* const userId = req.user.id: the identity authenticateToken put on the
\* request (no handler reads req.body.user_id)
ActingUser(r) == r.user.id

InFlight == BagToSet(reqs)

\* quota is the number of requests the clients still send

\* a client sends a request and the server accepts the connection
Accept ==
    /\ BagCardinality(reqs) < MaxInFlight
    /\ quota > 0
    /\ quota' = quota - 1

Answer(r, status, json) == [r EXCEPT !.pc = "done", !.status = status, !.json = json]

\* res.status(...).json(...) in a callback of request r (op says whether
\* the callback is that of a db read, of a db write, or of no db call)
Respond(r, op, status, json) ==
    LET q == IF op = "read" THEN [r EXCEPT !.reads = @ + 1]
             ELSE IF op = "write" THEN [r EXCEPT !.writes = @ + 1]
             ELSE r
    IN /\ reqs' = (reqs (-) SetToBag({r})) (+) SetToBag({Answer(q, status, json)})
       /\ UNCHANGED browser

\* a callback of request r issued the next db call
Continue(r, q) ==
    /\ reqs' = (reqs (-) SetToBag({r})) (+) SetToBag({q})
    /\ UNCHANGED browser

\* a request answered in the turn it arrived in
RespondAtOnce(r, status, json) ==
    /\ reqs' = reqs (+) SetToBag({Answer(r, status, json)})
    /\ UNCHANGED browser

\* authenticateToken answered 401 or 403: the chain stops
Reject(r, a) == RespondAtOnce(r, a.status, Json(a.error, "", ""))

\* the row a like/unlike or follow/unfollow request works on (bookkeeping
\* for the properties: which requests overlap in time on the same row)
Resource(r) ==
    IF r.route \in {"like", "unlike"}
    THEN <<"likes", r.user.id.n, ToInteger(r.param)>>
    ELSE IF r.route \in {"follow", "unfollow"}
    THEN <<"follows", r.user.id.n, ToInteger(r.param)>>
    ELSE <<"none", 0, 0>>

Overlaps(r, q) ==
    /\ r.pc # "done" /\ q.pc # "done"
    /\ Resource(r)[1] # "none" /\ Resource(r) = Resource(q)

RECURSIVE Copies(_, _)
Copies(B, S) == IF S = {} THEN 0
                ELSE LET x == CHOOSE x \in S : TRUE IN B[x] + Copies(B, S \ {x})

MarkOverlap(r, q) == IF Overlaps(r, q) THEN [q EXCEPT !.overlap = TRUE] ELSE q

\* the handler of a new request r issued its first db call and waits for the
\* callback (r and the requests on the same row are marked as overlapping)
Begin(r) ==
    LET marked == {MarkOverlap(r, q) : q \in InFlight}
        others == [m \in marked |-> Copies(reqs, {q \in InFlight : MarkOverlap(r, q) = m})]
        mine == [r EXCEPT !.overlap = \E q \in InFlight : Overlaps(r, q)]
    IN /\ reqs' = others (+) SetToBag({mine})
       /\ UNCHANGED browser

\* an error passed to next(err) or thrown inside a route handler: server.js
\* registers its error middleware before the routers, so the error reaches
\* the final handler of express, which answers 500 with an html page
FinalHandler(r, op) == Respond(r, op, 500, Json("Internal Server Error", "", ""))

-----------------------------------------------------------------------------
(* The React client in one browser tab: App (App.jsx) with localStorage,   *)
(* its route guards, and the posts the Home component holds.  Of a post    *)
(* Home holds here the fields handleLike changes (is_liked as the truth    *)
(* value the JSX tests).  Other clients of the API have no state here.     *)

NoStorage == [token |-> NoToken, userId |-> Undefined, username |-> Undefined]

\* no tab shows the application
Closed == [open |-> FALSE, mounted |-> FALSE, storage |-> NoStorage,
           isAuthenticated |-> FALSE, user |-> NoUser, path |-> "/login",
           posts |-> {}, error |-> ""]

Protected == {"/", "/profile", "/create-post"}
Public == {"/login", "/register"}

\* localStorage.setItem(key, value): the value is stored as a string
SetItem(v) ==
    IF v.t = "number" THEN Str(v.n)
    ELSE IF v.t = "undefined" THEN Text(<<"u", "n", "d", "e", "f", "i", "n", "e", "d">>)
    ELSE v

\* <Route element={isAuthenticated ? <X /> : <Navigate to="/login" />} /> and
\* its converse for the login and register views; Home loses its state when
\* it is not rendered
Render(b) ==
    LET path == IF b.path \in Protected /\ ~b.isAuthenticated THEN "/login"
                ELSE IF b.path \in Public /\ b.isAuthenticated THEN "/"
                ELSE b.path
    IN [b EXCEPT !.path = path,
                 !.posts = IF path = "/" THEN @ ELSE {},
                 !.error = IF path = "/" THEN @ ELSE ""]

\* the mount effect of App
MountEffect(b) ==
    LET st == b.storage IN
    IF st.token # NoToken /\ ~Falsy(st.userId) /\ ~Falsy(st.username)
    THEN [b EXCEPT !.mounted = TRUE, !.isAuthenticated = TRUE,
                   !.user = [id |-> st.userId, username |-> st.username]]
    ELSE [b EXCEPT !.mounted = TRUE]

\* handleLogin(userData)
HandleLogin(b, userData) ==
    [b EXCEPT !.storage = [token |-> userData.token, userId |-> SetItem(userData.id),
                           username |-> SetItem(userData.username)],
              !.isAuthenticated = TRUE,
              !.user = [id |-> userData.id, username |-> userData.username]]

\* a logout that leaves the token in localStorage
HandleLogout_KeepsToken(b) ==
    [b EXCEPT !.storage = [NoStorage EXCEPT !.token = b.storage.token],
              !.isAuthenticated = FALSE, !.user = NoUser]

\* handleLogout()
HandleLogout(b) ==
    [b EXCEPT !.storage = NoStorage, !.isAuthenticated = FALSE, !.user = NoUser]

\* response.ok
ResponseOk(r) == r.status \in 200..299

\* handleLike after the fetch: setPosts(prevPosts => prevPosts.map(...))
SetPosts(b, r) ==
    [b EXCEPT !.posts = {IF post.id = r.param.n
                         THEN [post EXCEPT
                                 !.is_liked = (r.json.action = "liked"),
                                 !.like_count = IF r.json.action = "liked"
                                                THEN @ + 1 ELSE @ - 1]
                         ELSE post : post \in b.posts}]

\* the continuation of the fetch whose answer r is: Login's handleSubmit
\* (onLogin, navigate('/')), Home's handleLike (setPosts or setError)
Receive(b, r) ==
    IF ~b.open THEN b
    ELSE IF r.route = "login"
    THEN IF ResponseOk(r)
         THEN Render([HandleLogin(b, [token |-> r.json.token, id |-> r.json.id,
                                      username |-> r.json.username])
                        EXCEPT !.path = "/"])
         ELSE b
    ELSE IF r.route = "like" /\ b.path = "/"
    THEN IF ResponseOk(r) THEN SetPosts(b, r)
         ELSE [b EXCEPT !.error = r.json.error]
    ELSE b

\* the client takes the answer; the connection is closed
Deliver(r) ==
    /\ r.pc = "done"
    /\ reqs' = reqs (-) SetToBag({r})
    /\ browser' = Receive(browser, r)
    /\ UNCHANGED <<store, fkOn, quota>>

\* a token whose id is not the id of the row
IssueToken_NextId(id, username) ==
    JwtSign([id |-> Num(id + 1), username |-> username], JWT_SECRET)

\* jwt.sign({ id, username }, 'your_jwt_secret')
IssueToken(id, username) == JwtSign([id |-> Num(id), username |-> username], JWT_SECRET)

\* what a client can put in the Authorization header: nothing, a scheme
\* without a token, a token that was not signed with the server's key, or a
\* token the server issued
ForgedToken == JwtSign([id |-> Num(1), username |-> Undefined], "other_secret")
Headers == {NoHeader, Bearer(NoToken), Bearer(ForgedToken)}
              \cup {Bearer(IssueToken(u.id, Text(u.username))) : u \in users}

-----------------------------------------------------------------------------
(* routes/auth.js: POST /register *)

\* /^[^\s@]+@[^\s@]+\.[^\s@]+$/ on the characters of a string
EmailRegex(e) ==
    \E i \in 1..Len(e), j \in 1..Len(e) :
        /\ e[i] = "@" /\ e[j] = "."
        /\ 1 < i /\ i + 1 < j /\ j < Len(e)
        /\ \A k \in (1..Len(e)) \ {i} : e[k] \notin {"@", " "}

\* the checks without the one of password.length
RegisterValidation_NoLength(b) ==
    IF Falsy(b.username) \/ Falsy(b.email) \/ Falsy(b.password)
    THEN "Gebruikersnaam, email en wachtwoord zijn verplicht!"
    ELSE IF ~EmailRegex(b.email.s)
    THEN "Ongeldig email formaat"
    ELSE ""

\* the checks made before the first db call; "" when the body passes
RegisterValidation(b) ==
    IF Falsy(b.username) \/ Falsy(b.email) \/ Falsy(b.password)
    THEN "Gebruikersnaam, email en wachtwoord zijn verplicht!"
    ELSE IF LessThan(Length(b.password), Num(6))
    THEN "Wachtwoord moet minimaal 6 karakters lang zijn"
    ELSE IF ~EmailRegex(b.email.s)
    THEN "Ongeldig email formaat"
    ELSE ""

\* res.status(201).json({ token, id: this.lastID, username })
TokenJson(token, id, username) ==
    [Json("", "", "") EXCEPT !.token = token, !.id = Num(id), !.username = username]

RegisterBodies ==
    {[NoBody EXCEPT !.username = u, !.email = e, !.password = p] :
        u \in {Text(Alice), Text(Bob), Undefined},
        e \in {Text(AliceMail), Text(BobMail), Text(<<"a", "@", "x">>)},
        p \in {Text(Secret1), Text(<<"a", "b", "c">>), Undefined, Num(1234567)}}

RegisterRequest ==
    /\ Accept
    /\ \E b \in RegisterBodies :
         LET r0 == NewRequest("register", NoHeader, Undefined, b)
             e == RegisterValidation(b)
         IN IF e # "" THEN RespondAtOnce(r0, 400, Json(e, "", ""))
            ELSE Begin([r0 EXCEPT !.pc = "select"])
    /\ UNCHANGED <<store, fkOn>>

RegisterSelect(r) ==
    /\ r.route = "register" /\ r.pc = "select"
    /\ IF SelectUserByNameOrEmail(r.body.username, r.body.email) # {}
       THEN Respond(r, "read", 400, Json("Deze gebruikersnaam of email bestaat al", "", ""))
       ELSE Continue(r, [r EXCEPT !.pc = "hash", !.reads = @ + 1])
    /\ UNCHANGED <<store, fkOn, quota>>

\* await bcrypt.hash(password, 10)
RegisterHash(r) ==
    /\ r.route = "register" /\ r.pc = "hash"
    /\ IF BcryptThrows(r.body.password)
       THEN Respond(r, "none", 500, Json("Fout bij het versleutelen van het wachtwoord", "", ""))
       ELSE Continue(r, [r EXCEPT !.pc = "insert", !.hashed = BcryptHash(r.body.password)])
    /\ UNCHANGED <<store, fkOn, quota>>

RegisterInsert(r) ==
    LET res == InsertUser(r.body.username, r.body.email, r.hashed) IN
    /\ r.route = "register" /\ r.pc = "insert"
    /\ users' = res.table
    /\ userSeq' = res.lastID
    /\ IF res.err # ""
       THEN Respond(r, "write", 500, [Json("Fout bij registratie", "", "") EXCEPT !.details = res.err])
       ELSE Respond(r, "write", 201,
                    TokenJson(IssueToken(res.lastID, r.body.username), res.lastID, r.body.username))
    /\ UNCHANGED <<posts, postSeq, likes, follows, comments, commentSeq, files, fkOn, quota>>

(* routes/auth.js: POST /login *)

LoginBodies ==
    {[NoBody EXCEPT !.email = e, !.password = p] :
        e \in {Text(AliceMail), Text(BobMail), Undefined},
        p \in {Text(Secret1), Text(Secret2), Undefined}}

LoginRequest ==
    /\ Accept
    /\ \E b \in LoginBodies :
         Begin([NewRequest("login", NoHeader, Undefined, b) EXCEPT !.pc = "select"])
    /\ UNCHANGED <<store, fkOn>>

LoginSelect(r) ==
    LET rows == SelectUserByEmail(r.body.email) IN
    /\ r.route = "login" /\ r.pc = "select"
    /\ IF rows = {}
       THEN Respond(r, "read", 401, Json("Invalid email or password", "", ""))
       ELSE Continue(r, [r EXCEPT !.pc = "compare", !.row = FirstRow(rows), !.reads = @ + 1])
    /\ UNCHANGED <<store, fkOn, quota>>

\* await bcrypt.compare(password, user.password), then the token
LoginCompare(r) ==
    /\ r.route = "login" /\ r.pc = "compare"
    /\ IF BcryptThrows(r.body.password)
       THEN Respond(r, "none", 500, Json("Error validating password", "", ""))
       ELSE IF ~BcryptCompare(r.body.password, r.row.password)
       THEN Respond(r, "none", 401, Json("Invalid email or password", "", ""))
       ELSE Respond(r, "none", 200,
                    TokenJson(IssueToken(r.row.id, Text(r.row.username)), r.row.id,
                              Text(r.row.username)))
    /\ UNCHANGED <<store, fkOn, quota>>

-----------------------------------------------------------------------------
(* routes/posts.js: POST /:postId/like *)

\* a toggle that inserts whatever the SELECT found
LikeBranch_AlwaysInsert(found) == "insert"

\* a toggle whose SELECT callback issues no statement and sends no answer
LikeBranch_Lost(found) == "lost"

\* if (like) { DELETE ... } else { INSERT ... }
LikeBranch(found) == IF found THEN "delete" ELSE "insert"

\* the chain up to db.get for a request with header h for post p
LikeArrives(h, p, uid) ==
    LET r0 == NewRequest("like", h, Str(p), [NoBody EXCEPT !.user_id = uid])
        a == AuthenticateToken(h)
        r == [r0 EXCEPT !.user = a.user, !.pc = "select"]
    IN IF a.status # 0 THEN Reject(r0, a) ELSE Begin(r)

LikeRequestWith(uid) ==
    /\ Accept
    /\ \E h \in Headers, p \in Ids : LikeArrives(h, p, uid)
    /\ UNCHANGED <<store, fkOn>>

LikeRequest == LikeRequestWith(Undefined)

\* Home.jsx handleLike(postId), up to the fetch: a click on the like button
\* of a post Home shows, sent with the token of localStorage
HandleLike ==
    /\ browser.open /\ browser.isAuthenticated /\ browser.path = "/"
    /\ Accept
    /\ \E post \in browser.posts :
         LikeArrives(Bearer(browser.storage.token), post.id, Undefined)
    /\ UNCHANGED <<store, fkOn>>

LikeSelect(r) ==
    /\ r.route = "like" /\ r.pc = "select"
    /\ Continue(r, [r EXCEPT !.pc = LikeBranch(SelectLike(ActingUser(r), r.param)),
                             !.reads = @ + 1])
    /\ UNCHANGED <<store, fkOn, quota>>

LikeDelete(r) ==
    /\ r.route = "like" /\ r.pc = "delete"
    /\ likes' = DeleteRow(likes, LikeRow(ActingUser(r), r.param))
    /\ Respond(r, "write", 200,
               Json("", "unliked", "Like succesvol verwijderd"))
    /\ UNCHANGED <<users, userSeq, posts, postSeq, follows, comments, commentSeq, files, fkOn, quota>>

LikeInsert(r) ==
    LET res == InsertLike(ActingUser(r), r.param) IN
    /\ r.route = "like" /\ r.pc = "insert"
    /\ likes' = res.table
    /\ IF res.err # ""
       THEN Respond(r, "write", 500,
                    Json("Database error bij het liken van de post", "", ""))
       ELSE Respond(r, "write", 200,
                    Json("", "liked", "Post succesvol geliked"))
    /\ UNCHANGED <<users, userSeq, posts, postSeq, follows, comments, commentSeq, files, fkOn, quota>>

(* routes/posts.js: DELETE /:postId/like *)

UnlikeRequest ==
    /\ Accept
    /\ \E h \in Headers, p \in Ids :
         LET r0 == NewRequest("unlike", h, Str(p), NoBody)
             a == AuthenticateToken(h)
             r == [r0 EXCEPT !.user = a.user, !.pc = "delete"]
         IN IF a.status # 0 THEN Reject(r0, a) ELSE Begin(r)
    /\ UNCHANGED <<store, fkOn>>

UnlikeDelete(r) ==
    /\ r.route = "unlike" /\ r.pc = "delete"
    /\ likes' = DeleteRow(likes, LikeRow(ActingUser(r), r.param))
    /\ Respond(r, "write", 200,
               Json("", "", "Like succesvol verwijderd"))
    /\ UNCHANGED <<users, userSeq, posts, postSeq, follows, comments, commentSeq, files, fkOn, quota>>

-----------------------------------------------------------------------------
(* routes/users.js: POST /:userId/follow *)

\* if (userId === followerId): the path parameter against the token's id
IsSelfFollow(userId, followerId) == StrictEq(userId, followerId)

FollowRequestWith(uid) ==
    /\ Accept
    /\ \E h \in Headers, id \in Ids :
         LET r0 == NewRequest("follow", h, Str(id), [NoBody EXCEPT !.user_id = uid])
             a == AuthenticateToken(h)
             r == [r0 EXCEPT !.user = a.user, !.pc = "insert"]
         IN IF a.status # 0 THEN Reject(r0, a)
            ELSE IF IsSelfFollow(r.param, ActingUser(r))
            THEN RespondAtOnce(r, 400, Json("Je kunt jezelf niet volgen", "", ""))
            ELSE Begin(r)
    /\ UNCHANGED <<store, fkOn>>

FollowRequest == FollowRequestWith(Undefined)

\* a handler that reports every error of the INSERT as a database error
FollowError_Always500(err) ==
    [status |-> 500, error |-> "Database error bij het volgen van gebruiker"]

\* if (err.message.includes('UNIQUE constraint failed')) 400, otherwise 500
FollowError(err) ==
    IF err = "UNIQUE constraint failed"
    THEN [status |-> 400, error |-> "Je volgt deze gebruiker al"]
    ELSE [status |-> 500, error |-> "Database error bij het volgen van gebruiker"]

FollowInsert(r) ==
    LET res == InsertFollow(ActingUser(r), r.param) IN
    /\ r.route = "follow" /\ r.pc = "insert"
    /\ follows' = res.table
    /\ IF res.err # ""
       THEN Respond(r, "write", FollowError(res.err).status,
                    Json(FollowError(res.err).error, "", ""))
       ELSE Respond(r, "write", 200, Json("", "", "Gebruiker succesvol gevolgd"))
    /\ UNCHANGED <<users, userSeq, posts, postSeq, likes, comments, commentSeq, files, fkOn, quota>>

(* routes/users.js: DELETE /:userId/follow *)

UnfollowRequest ==
    /\ Accept
    /\ \E h \in Headers, id \in Ids :
         LET r0 == NewRequest("unfollow", h, Str(id), NoBody)
             a == AuthenticateToken(h)
             r == [r0 EXCEPT !.user = a.user, !.pc = "delete"]
         IN IF a.status # 0 THEN Reject(r0, a) ELSE Begin(r)
    /\ UNCHANGED <<store, fkOn>>

UnfollowDelete(r) ==
    /\ r.route = "unfollow" /\ r.pc = "delete"
    /\ follows' = DeleteRow(follows, FollowRow(ActingUser(r), r.param))
    /\ Respond(r, "write", 200,
               Json("", "", "Gebruiker succesvol ontvolgd"))
    /\ UNCHANGED <<users, userSeq, posts, postSeq, likes, comments, commentSeq, files, fkOn, quota>>

-----------------------------------------------------------------------------
(* multer: upload.single(field) with the fileFilter and limits of the      *)
(* routers.  A stored file is named by a number (the generated name        *)
(* Date.now() + "-" + random + extension, taken to be new).                *)

MaxFileSize == 5 * 1024 * 1024
AllowedExt == {"jpg", "jpeg", "png", "gif"}

\* a filter that accepts every file name
FileFilter_Any(file) == TRUE

\* file.originalname.match(/\.(jpg|jpeg|png|gif)$/)
FileFilter(file) == file.ext \in AllowedExt

NewFileName == IF files = {} THEN 1 ELSE 1 + CHOOSE f \in files : \A g \in files : g <= f

\* err: the error passed to next; name: req.file.filename, 0 without req.file
\* (the part of a file over the limit is unlinked again)
UploadSingle(file) ==
    IF ~file.present THEN [err |-> "", name |-> 0]
    ELSE IF ~FileFilter(file)
    THEN [err |-> "Alleen afbeeldingen zijn toegestaan!", name |-> 0]
    ELSE IF file.size > MaxFileSize THEN [err |-> "File too large", name |-> 0]
    ELSE [err |-> "", name |-> NewFileName]

Uploads == {NoFile, File("png", 1024), File("exe", 1024), File("png", MaxFileSize + 1)}

-----------------------------------------------------------------------------
(* routes/posts.js: POST / *)

PostRow(id, user_id, caption, image_url, created_at) ==
    [id |-> id, user_id |-> user_id, image_url |-> image_url, caption |-> caption,
     created_at |-> created_at]

\* created_at DATETIME DEFAULT CURRENT_TIMESTAMP: the second in which the row
\* is inserted, which is the second of the latest post or a later one
Latest == IF posts = {} THEN 0
          ELSE (CHOOSE p \in posts : \A q \in posts : q.created_at <= p.created_at).created_at
CurrentTimestamp == {Latest, Latest + 1}

\* INSERT INTO posts (user_id, caption, image_url) VALUES (?, ?, ?)
InsertPost(user_id, caption, image_url, now) ==
    IF fkOn /\ ~UserExists(ToInteger(user_id))
    THEN [err |-> "FOREIGN KEY constraint failed", table |-> posts, lastID |-> postSeq]
    ELSE [err |-> "", lastID |-> postSeq + 1,
          table |-> posts \cup {PostRow(postSeq + 1, ToInteger(user_id), caption.s,
                                        image_url, now)}]

CreatePostBodies == {[NoBody EXCEPT !.caption = c, !.file = f] :
                        c \in {Undefined, Text(<<"h", "i">>)}, f \in Uploads}

CreatePostRequestWith(uid) ==
    /\ Accept
    /\ \E h \in Headers, b \in CreatePostBodies :
         LET r0 == NewRequest("createPost", h, Undefined, [b EXCEPT !.user_id = uid])
             a == AuthenticateToken(h)
             r == [r0 EXCEPT !.user = a.user, !.pc = "upload"]
         IN IF a.status # 0 THEN Reject(r0, a) ELSE Begin(r)
    /\ UNCHANGED <<store, fkOn>>

CreatePostRequest == CreatePostRequestWith(Undefined)

\* upload.single("image"), then the handler up to db.run
CreatePostUpload(r) ==
    LET up == UploadSingle(r.body.file)
        q == [r EXCEPT !.filename = up.name,
                       !.stored = IF up.name # 0 THEN @ + 1 ELSE @]
    IN
    /\ r.route = "createPost" /\ r.pc = "upload"
    /\ files' = IF up.name # 0 THEN files \cup {up.name} ELSE files
    /\ IF up.err # "" THEN FinalHandler(r, "none")
       ELSE IF up.name = 0
       THEN Respond(r, "none", 400, Json("Afbeelding is verplicht", "", ""))
       ELSE Continue(r, [q EXCEPT !.pc = "insert"])
    /\ UNCHANGED <<users, userSeq, posts, postSeq, likes, follows, comments, commentSeq, fkOn, quota>>

CreatePostInsert(r) ==
    /\ r.route = "createPost" /\ r.pc = "insert"
    /\ \E now \in CurrentTimestamp :
         LET res == InsertPost(ActingUser(r), r.body.caption, r.filename, now) IN
         /\ posts' = res.table /\ postSeq' = res.lastID
         /\ IF res.err # ""
            THEN Respond(r, "write", 500,
                         Json("Er is een fout opgetreden bij het maken van de post", "", ""))
            ELSE Respond(r, "write", 200,
                         [Json("", "", "") EXCEPT !.id = Num(res.lastID),
                                                  !.data = res.table \ posts])
    /\ UNCHANGED <<users, userSeq, likes, follows, comments, commentSeq, files, fkOn, quota>>

(* routes/posts.js: GET / and routes/users.js: GET /:userId/posts *)

UsernameOf(id) == IF UserExists(id) THEN (CHOOSE u \in users : u.id = id).username ELSE << >>

\* SELECT p.*, u.username, like_count, comment_count, is_liked
PostView(p, viewer) ==
    [id |-> p.id, user_id |-> p.user_id, image_url |-> p.image_url,
     caption |-> p.caption, created_at |-> p.created_at,
     username |-> UsernameOf(p.user_id),
     like_count |-> Copies(likes, {l \in BagToSet(likes) : l.post_id = p.id}),
     comment_count |-> Cardinality({c \in comments : c.post_id = p.id}),
     is_liked |-> Copies(likes, {l \in BagToSet(likes) :
                               l.post_id = p.id /\ l.user_id = ToInteger(viewer)})]

ListPostsRequest ==
    /\ Accept
    /\ \E h \in Headers :
         LET r0 == NewRequest("listPosts", h, Undefined, NoBody)
             a == AuthenticateToken(h)
             r == [r0 EXCEPT !.user = a.user, !.pc = "select"]
         IN IF a.status # 0 THEN Reject(r0, a) ELSE Begin(r)
    /\ UNCHANGED <<store, fkOn>>

\* ORDER BY p.id, ascending
RECURSIVE OrderByIdAsc(_)
OrderByIdAsc(rows) ==
    IF rows = {} THEN << >>
    ELSE LET first == CHOOSE x \in rows : \A y \in rows : x.id <= y.id
         IN <<first>> \o OrderByIdAsc(rows \ {first})

\* ORDER BY p.id DESC
RECURSIVE OrderByIdDesc(_)
OrderByIdDesc(rows) ==
    IF rows = {} THEN << >>
    ELSE LET first == CHOOSE x \in rows : \A y \in rows : y.id <= x.id
         IN <<first>> \o OrderByIdDesc(rows \ {first})

\* res.json(posts): the rows in the order of the query
RowsList(rows) == [Json("", "", "") EXCEPT !.list = rows]

ListPostsSelect(r) ==
    /\ r.route = "listPosts" /\ r.pc = "select"
    /\ Respond(r, "read", 200,
               RowsList(OrderByIdDesc({PostView(p, ActingUser(r)) : p \in posts})))
    /\ UNCHANGED <<store, fkOn, quota>>

UserPostsRequest ==
    /\ Accept
    /\ \E h \in Headers, id \in Ids :
         LET r0 == NewRequest("userPosts", h, Str(id), NoBody)
             a == AuthenticateToken(h)
             r == [r0 EXCEPT !.user = a.user, !.pc = "select"]
         IN IF a.status # 0 THEN Reject(r0, a) ELSE Begin(r)
    /\ UNCHANGED <<store, fkOn>>

\* ORDER BY p.created_at DESC: the rows by descending created_at; rows with
\* the same created_at come in whatever order the engine produces
OrderByCreatedAtDesc(rows) ==
    {list \in [1..Cardinality(rows) -> rows] :
        /\ \A i \in DOMAIN list : \A j \in DOMAIN list : list[i] = list[j] => i = j
        /\ \A i \in DOMAIN list : \A j \in DOMAIN list :
             i < j => list[i].created_at >= list[j].created_at}

UserPostsSelect(r) ==
    /\ r.route = "userPosts" /\ r.pc = "select"
    /\ \E list \in OrderByCreatedAtDesc({PostView(p, ActingUser(r)) :
                        p \in {x \in posts : x.user_id = ToInteger(r.param)}}) :
         Respond(r, "read", 200, RowsList(list))
    /\ UNCHANGED <<store, fkOn, quota>>

-----------------------------------------------------------------------------
(* routes/posts.js: POST /:postId/comments and GET /:postId/comments *)

Whitespace == {" "}

\* content.trim()
RECURSIVE TrimLeft(_)
TrimLeft(chars) == IF chars # << >> /\ Head(chars) \in Whitespace
                   THEN TrimLeft(Tail(chars)) ELSE chars
RECURSIVE TrimRight(_)
TrimRight(chars) == IF chars # << >> /\ chars[Len(chars)] \in Whitespace
                    THEN TrimRight(SubSeq(chars, 1, Len(chars) - 1)) ELSE chars
\* a trim of the left end only
Trim_LeftOnly(chars) == TrimLeft(chars)

Trim(chars) == TrimRight(TrimLeft(chars))

\* a check that compares the content itself with ''
ContentCheck_NoTrim(content) ==
    IF Falsy(content) THEN "empty"
    ELSE IF content.t # "string" THEN "throws"
    ELSE "ok"

\* if (!content || content.trim() === ''): "throws" when content has no trim
ContentCheck(content) ==
    IF Falsy(content) THEN "empty"
    ELSE IF content.t # "string" THEN "throws"
    ELSE IF Trim(content.s) = << >> THEN "empty"
    ELSE "ok"

CommentRow(id, user_id, post_id, content) ==
    [id |-> id, user_id |-> user_id, post_id |-> post_id, content |-> content]

\* INSERT INTO comments (user_id, post_id, content) VALUES (?, ?, ?)
InsertComment(user_id, post_id, content) ==
    IF fkOn /\ ~(UserExists(ToInteger(user_id)) /\ PostExists(ToInteger(post_id)))
    THEN [err |-> "FOREIGN KEY constraint failed", table |-> comments, lastID |-> commentSeq]
    ELSE [err |-> "", lastID |-> commentSeq + 1,
          table |-> comments \cup {CommentRow(commentSeq + 1, ToInteger(user_id),
                                              ToInteger(post_id), content)}]

CommentBodies == {[NoBody EXCEPT !.content = c] :
                     c \in {Undefined, Text(<<" ">>), Text(<<" ", "o", "k", " ">>), Num(7)}}

AddCommentRequestWith(uid) ==
    /\ Accept
    /\ \E h \in Headers, p \in Ids, b \in CommentBodies :
         LET r0 == NewRequest("addComment", h, Str(p), [b EXCEPT !.user_id = uid])
             a == AuthenticateToken(h)
             r == [r0 EXCEPT !.user = a.user, !.pc = "select"]
             check == ContentCheck(b.content)
         IN IF a.status # 0 THEN Reject(r0, a)
            ELSE IF check = "empty"
            THEN RespondAtOnce(r, 400, Json("Commentaar mag niet leeg zijn", "", ""))
            ELSE IF check = "throws"
            THEN RespondAtOnce(r, 500, Json("Internal Server Error", "", ""))
            ELSE Begin(r)
    /\ UNCHANGED <<store, fkOn>>

AddCommentRequest == AddCommentRequestWith(Undefined)

\* SELECT id FROM posts WHERE id = ?
AddCommentSelect(r) ==
    /\ r.route = "addComment" /\ r.pc = "select"
    /\ IF PostExists(ToInteger(r.param))
       THEN Continue(r, [r EXCEPT !.pc = "insert", !.reads = @ + 1])
       ELSE Respond(r, "read", 404, Json("Post niet gevonden", "", ""))
    /\ UNCHANGED <<store, fkOn, quota>>

AddCommentInsert(r) ==
    LET res == InsertComment(ActingUser(r), r.param, Trim(r.body.content.s)) IN
    /\ r.route = "addComment" /\ r.pc = "insert"
    /\ comments' = res.table /\ commentSeq' = res.lastID
    /\ IF res.err # ""
       THEN Respond(r, "write", 500,
                    Json("Database error bij het plaatsen van commentaar", "", ""))
       ELSE Continue(r, [r EXCEPT !.pc = "username", !.writes = @ + 1,
                                  !.lastID = res.lastID])
    /\ UNCHANGED <<users, userSeq, posts, postSeq, likes, follows, files, fkOn, quota>>

\* SELECT username FROM users WHERE id = ?  (no operation deletes a user, so
\* the user of a verified token has a row)
AddCommentUsername(r) ==
    /\ r.route = "addComment" /\ r.pc = "username"
    /\ UserExists(ToInteger(ActingUser(r)))
    /\ Respond(r, "read", 201,
               [Json("", "", "") EXCEPT
                   !.id = Num(r.lastID),
                   !.username = Text(UsernameOf(ToInteger(ActingUser(r)))),
                   !.data = {CommentRow(r.lastID, ToInteger(ActingUser(r)), r.param.n,
                                        Trim(r.body.content.s))}])
    /\ UNCHANGED <<store, fkOn, quota>>

\* SELECT c.*, u.username FROM comments c LEFT JOIN users u ...
CommentView(c) ==
    [id |-> c.id, user_id |-> c.user_id, post_id |-> c.post_id,
     content |-> c.content, username |-> UsernameOf(c.user_id)]

ListCommentsRequest ==
    /\ Accept
    /\ \E h \in Headers, p \in Ids :
         LET r0 == NewRequest("listComments", h, Str(p), NoBody)
             a == AuthenticateToken(h)
             r == [r0 EXCEPT !.user = a.user, !.pc = "select"]
         IN IF a.status # 0 THEN Reject(r0, a) ELSE Begin(r)
    /\ UNCHANGED <<store, fkOn>>

ListCommentsSelect(r) ==
    /\ r.route = "listComments" /\ r.pc = "select"
    /\ Respond(r, "read", 200,
               RowsJson({CommentView(c) :
                            c \in {x \in comments : x.post_id = ToInteger(r.param)}}))
    /\ UNCHANGED <<store, fkOn, quota>>

-----------------------------------------------------------------------------
(* routes/users.js: GET /:userId *)

\* a query whose two follow counts are taken on the wrong columns
Profile_Swapped(u) ==
    [id |-> u.id, username |-> u.username, email |-> u.email,
     profile_picture |-> u.profile_picture, bio |-> u.bio,
     post_count |-> Cardinality({p \in posts : p.user_id = u.id}),
     following_count |-> Copies(follows, {f \in BagToSet(follows) : f.following_id = u.id}),
     followers_count |-> Copies(follows, {f \in BagToSet(follows) : f.follower_id = u.id})]

\* SELECT id, username, email, profile_picture, bio, post_count,
\* following_count, followers_count FROM users WHERE id = ?
Profile(u) ==
    [id |-> u.id, username |-> u.username, email |-> u.email,
     profile_picture |-> u.profile_picture, bio |-> u.bio,
     post_count |-> Cardinality({p \in posts : p.user_id = u.id}),
     following_count |-> Copies(follows, {f \in BagToSet(follows) : f.follower_id = u.id}),
     followers_count |-> Copies(follows, {f \in BagToSet(follows) : f.following_id = u.id})]

\* the ids the users table has given so far, and the next one
UserIds == 1..(userSeq + 1)

GetUserRequest ==
    /\ Accept
    /\ \E h \in Headers, id \in UserIds :
         LET r0 == NewRequest("getUser", h, Str(id), NoBody)
             a == AuthenticateToken(h)
             r == [r0 EXCEPT !.user = a.user, !.pc = "select"]
         IN IF a.status # 0 THEN Reject(r0, a) ELSE Begin(r)
    /\ UNCHANGED <<store, fkOn>>

GetUserSelect(r) ==
    LET rows == {u \in users : u.id = ToInteger(r.param)} IN
    /\ r.route = "getUser" /\ r.pc = "select"
    /\ IF rows = {}
       THEN Respond(r, "read", 404, Json("Gebruiker niet gevonden", "", ""))
       ELSE Respond(r, "read", 200, RowsJson({Profile(FirstRow(rows))}))
    /\ UNCHANGED <<store, fkOn, quota>>

(* server.js, the standalone server: app.get("/api/users/:userId"), which *)
(* has no authenticateToken in its chain                                  *)

\* SELECT u.*, post_count FROM users u WHERE u.id = ?
AppUserRow(u) ==
    [id |-> u.id, username |-> u.username, email |-> u.email,
     password |-> u.password, profile_picture |-> u.profile_picture,
     bio |-> u.bio,
     post_count |-> Cardinality({p \in posts : p.user_id = u.id})]

AppGetUserRequest ==
    /\ Accept
    /\ \E h \in Headers, id \in UserIds :
         LET r0 == NewRequest("appGetUser", h, Str(id), NoBody)
         IN Begin([r0 EXCEPT !.pc = "select"])
    /\ UNCHANGED <<store, fkOn>>

AppGetUserSelect(r) ==
    LET rows == {u \in users : u.id = ToInteger(r.param)} IN
    /\ r.route = "appGetUser" /\ r.pc = "select"
    /\ IF rows = {}
       THEN Respond(r, "read", 404, Json("Gebruiker niet gevonden", "", ""))
       ELSE Respond(r, "read", 200, RowsJson({AppUserRow(FirstRow(rows))}))
    /\ UNCHANGED <<store, fkOn, quota>>

(* routes/users.js: PUT /profile *)

ProfileBodies == {[NoBody EXCEPT !.bio = b, !.file = f] :
                     b \in {Undefined, Text(<<"y", "o">>)}, f \in Uploads}

UpdateProfileRequestWith(uid) ==
    /\ Accept
    /\ \E h \in Headers, b \in ProfileBodies :
         LET r0 == NewRequest("updateProfile", h, Undefined, [b EXCEPT !.user_id = uid])
             a == AuthenticateToken(h)
             r == [r0 EXCEPT !.user = a.user, !.pc = "upload"]
         IN IF a.status # 0 THEN Reject(r0, a) ELSE Begin(r)
    /\ UNCHANGED <<store, fkOn>>

UpdateProfileRequest == UpdateProfileRequestWith(Undefined)

\* upload.single("profile_picture"), then the handler up to db.run
UpdateProfileUpload(r) ==
    LET up == UploadSingle(r.body.file)
        q == [r EXCEPT !.filename = up.name,
                       !.stored = IF up.name # 0 THEN @ + 1 ELSE @]
    IN
    /\ r.route = "updateProfile" /\ r.pc = "upload"
    /\ files' = IF up.name # 0 THEN files \cup {up.name} ELSE files
    /\ IF up.err # "" THEN FinalHandler(r, "none")
       ELSE IF r.body.bio.t = "undefined" /\ up.name = 0
       THEN Respond(r, "none", 400, Json("Geen updates opgegeven", "", ""))
       ELSE Continue(r, [q EXCEPT !.pc = "update"])
    /\ UNCHANGED <<users, userSeq, posts, postSeq, likes, follows, comments, commentSeq, fkOn, quota>>

\* an UPDATE that always sets both columns
UpdateUser_AllFields(u, bio, filename) ==
    [u EXCEPT !.bio = bio.s, !.profile_picture = filename]

\* UPDATE users SET bio = ?, profile_picture = ? WHERE id = ?  (the columns
\* the handler collected in updates)
UpdateUser(u, bio, filename) ==
    [u EXCEPT !.bio = IF bio.t # "undefined" THEN bio.s ELSE @,
              !.profile_picture = IF filename # 0 THEN filename ELSE @]

UpdateProfileUpdate(r) ==
    /\ r.route = "updateProfile" /\ r.pc = "update"
    /\ users' = {IF u.id = ToInteger(ActingUser(r))
                 THEN UpdateUser(u, r.body.bio, r.filename) ELSE u : u \in users}
    /\ Respond(r, "write", 200, Json("", "", "Profiel succesvol bijgewerkt"))
    /\ UNCHANGED <<userSeq, posts, postSeq, likes, follows, comments, commentSeq, files, fkOn, quota>>

-----------------------------------------------------------------------------
(* server.js: app.use('/uploads', express.static(...)), mounted without    *)
(* authenticateToken                                                       *)

StaticRequest ==
    /\ Accept
    /\ \E h \in Headers, name \in files \cup {0} :
         LET r == NewRequest("static", h, Num(name), NoBody) IN
         IF name \in files
         THEN RespondAtOnce(r, 200, RowsJson({name}))
         ELSE RespondAtOnce(r, 404, Json("Not Found", "", ""))
    /\ UNCHANGED <<store, fkOn>>

-----------------------------------------------------------------------------
(* Likes and follows among registered users: alice and bob have registered *)
(* and alice may have published a post; the server was started either on a *)
(* fresh database file (createTables ran, PRAGMA foreign_keys = ON) or on  *)
(* an existing one (createTables skipped, foreign keys left off).          *)

SeedUsers == {UserRow(1, Alice, AliceMail, BcryptHash(Text(Secret1))),
              UserRow(2, Bob, BobMail, BcryptHash(Text(Secret2)))}
SeedPost == PostRow(1, 1, <<"h", "i">>, 1, 1)

InitStore ==
    /\ users = SeedUsers /\ userSeq = Cardinality(SeedUsers)
    /\ posts \in {{}, {SeedPost}} /\ postSeq = Cardinality(posts)
    /\ likes = EmptyBag /\ follows = EmptyBag
    /\ comments = {} /\ commentSeq = 0
    /\ files = {p.image_url : p \in posts}
    /\ fkOn \in BOOLEAN
    /\ reqs = EmptyBag /\ browser = Closed

NextLikes ==
    \/ LikeRequest
    \/ UnlikeRequest
    \/ \E r \in InFlight : LikeSelect(r)
    \/ \E r \in InFlight : LikeDelete(r)
    \/ \E r \in InFlight : LikeInsert(r)
    \/ \E r \in InFlight : UnlikeDelete(r)
    \/ \E r \in InFlight : Deliver(r)

InitLikes == InitStore /\ quota = LikesQuota
SpecLikes == InitLikes /\ [][NextLikes]_vars

NextFollows ==
    \/ FollowRequest
    \/ UnfollowRequest
    \/ \E r \in InFlight : FollowInsert(r)
    \/ \E r \in InFlight : UnfollowDelete(r)
    \/ \E r \in InFlight : Deliver(r)

InitFollows == InitStore /\ quota = FollowsQuota
SpecFollows == InitFollows /\ [][NextFollows]_vars

\* like and follow traffic together
NextSocial ==
    \/ LikeRequest
    \/ UnlikeRequest
    \/ FollowRequest
    \/ UnfollowRequest
    \/ \E r \in InFlight : LikeSelect(r)
    \/ \E r \in InFlight : LikeDelete(r)
    \/ \E r \in InFlight : LikeInsert(r)
    \/ \E r \in InFlight : UnlikeDelete(r)
    \/ \E r \in InFlight : FollowInsert(r)
    \/ \E r \in InFlight : UnfollowDelete(r)
    \/ \E r \in InFlight : Deliver(r)

InitSocial == InitStore /\ quota = SocialQuota
SpecSocial == InitSocial /\ [][NextSocial]_vars

\* every route of the posts and users routers, and the static mount
NextGate ==
    \/ NextSocial
    \/ CreatePostRequest
    \/ ListPostsRequest
    \/ UserPostsRequest
    \/ AddCommentRequest
    \/ ListCommentsRequest
    \/ GetUserRequest
    \/ UpdateProfileRequest
    \/ StaticRequest
    \/ \E r \in InFlight : CreatePostUpload(r)
    \/ \E r \in InFlight : CreatePostInsert(r)
    \/ \E r \in InFlight : ListPostsSelect(r)
    \/ \E r \in InFlight : UserPostsSelect(r)
    \/ \E r \in InFlight : AddCommentSelect(r)
    \/ \E r \in InFlight : AddCommentInsert(r)
    \/ \E r \in InFlight : AddCommentUsername(r)
    \/ \E r \in InFlight : ListCommentsSelect(r)
    \/ \E r \in InFlight : GetUserSelect(r)
    \/ \E r \in InFlight : UpdateProfileUpload(r)
    \/ \E r \in InFlight : UpdateProfileUpdate(r)

\* alice may have liked her post
SeedLikes == {EmptyBag} \cup {SetToBag({LikeRow(Num(p.user_id), Num(p.id))}) : p \in posts}

InitGate ==
    /\ users = SeedUsers /\ userSeq = Cardinality(SeedUsers)
    /\ posts \in {{}, {SeedPost}} /\ postSeq = Cardinality(posts)
    /\ likes \in SeedLikes /\ follows = EmptyBag
    /\ comments = {} /\ commentSeq = 0
    /\ files = {p.image_url : p \in posts}
    /\ fkOn \in BOOLEAN
    /\ reqs = EmptyBag /\ browser = Closed
    /\ quota = GateQuota
SpecGate == InitGate /\ [][NextGate]_vars

\* the like toggle alone (no client uses DELETE /:postId/like); alice may
\* have liked the post already
NextToggle ==
    \/ LikeRequest
    \/ \E r \in InFlight : LikeSelect(r)
    \/ \E r \in InFlight : LikeDelete(r)
    \/ \E r \in InFlight : LikeInsert(r)
    \/ \E r \in InFlight : Deliver(r)

InitToggle ==
    /\ users = SeedUsers /\ userSeq = Cardinality(SeedUsers)
    /\ posts = {SeedPost} /\ postSeq = Cardinality(posts)
    /\ likes \in SeedLikes /\ follows = EmptyBag
    /\ comments = {} /\ commentSeq = 0
    /\ files = {p.image_url : p \in posts}
    /\ fkOn = TRUE
    /\ reqs = EmptyBag /\ browser = Closed
    /\ quota = ToggleQuota

SpecToggle == InitToggle /\ [][NextToggle]_vars

\* the writing routes, sent by clients that put a user_id of their choice in
\* the body (as CreatePost.jsx does with formData.append('user_id', ...))
BodyUserIds == {Undefined} \cup {Num(u.id) : u \in users}

NextIdentity ==
    \/ \E uid \in BodyUserIds : CreatePostRequestWith(uid)
    \/ \E uid \in BodyUserIds : LikeRequestWith(uid)
    \/ \E uid \in BodyUserIds : AddCommentRequestWith(uid)
    \/ \E uid \in BodyUserIds : FollowRequestWith(uid)
    \/ \E uid \in BodyUserIds : UpdateProfileRequestWith(uid)
    \/ \E r \in InFlight : CreatePostUpload(r)
    \/ \E r \in InFlight : CreatePostInsert(r)
    \/ \E r \in InFlight : LikeSelect(r)
    \/ \E r \in InFlight : LikeDelete(r)
    \/ \E r \in InFlight : LikeInsert(r)
    \/ \E r \in InFlight : AddCommentSelect(r)
    \/ \E r \in InFlight : AddCommentInsert(r)
    \/ \E r \in InFlight : AddCommentUsername(r)
    \/ \E r \in InFlight : FollowInsert(r)
    \/ \E r \in InFlight : UpdateProfileUpload(r)
    \/ \E r \in InFlight : UpdateProfileUpdate(r)
    \/ \E r \in InFlight : Deliver(r)

InitIdentity ==
    /\ users = SeedUsers /\ userSeq = Cardinality(SeedUsers)
    /\ posts = {SeedPost} /\ postSeq = Cardinality(posts)
    /\ likes \in SeedLikes /\ follows = EmptyBag
    /\ comments = {} /\ commentSeq = 0
    /\ files = {p.image_url : p \in posts}
    /\ fkOn = TRUE
    /\ reqs = EmptyBag /\ browser = Closed
    /\ quota = IdentityQuota

SpecIdentity == InitIdentity /\ [][NextIdentity]_vars

\* the feed and the posts of one user while posts are published; alice may
\* have published a second post in the second of her first
SeedPost2 == PostRow(2, 1, << >>, 2, 1)

NextUserPosts ==
    \/ CreatePostRequest
    \/ ListPostsRequest
    \/ UserPostsRequest
    \/ \E r \in InFlight : CreatePostUpload(r)
    \/ \E r \in InFlight : CreatePostInsert(r)
    \/ \E r \in InFlight : ListPostsSelect(r)
    \/ \E r \in InFlight : UserPostsSelect(r)
    \/ \E r \in InFlight : Deliver(r)

InitUserPosts ==
    /\ users = SeedUsers /\ userSeq = Cardinality(SeedUsers)
    /\ posts \in {{SeedPost}, {SeedPost, SeedPost2}} /\ postSeq = Cardinality(posts)
    /\ likes \in SeedLikes /\ follows = EmptyBag
    /\ comments = {} /\ commentSeq = 0
    /\ files = {p.image_url : p \in posts}
    /\ fkOn = TRUE
    /\ reqs = EmptyBag /\ browser = Closed
    /\ quota = UserPostsQuota

SpecUserPosts == InitUserPosts /\ [][NextUserPosts]_vars

-----------------------------------------------------------------------------
(* alice, logged in, looks at the feed in Home and clicks like buttons; no *)
(* other client sends requests.                                            *)

\* what Home holds of the rows fetchPosts received
FetchedPosts(viewer) ==
    {[id |-> v.id, is_liked |-> v.is_liked # 0, like_count |-> v.like_count] :
        v \in {PostView(p, viewer) : p \in posts}}

NextHome ==
    \/ HandleLike
    \/ \E r \in InFlight : LikeSelect(r)
    \/ \E r \in InFlight : LikeDelete(r)
    \/ \E r \in InFlight : LikeInsert(r)
    \/ \E r \in InFlight : Deliver(r)

InitHome ==
    /\ users = SeedUsers /\ userSeq = Cardinality(SeedUsers)
    /\ posts = {SeedPost} /\ postSeq = Cardinality(posts)
    /\ likes \in SeedLikes /\ follows = EmptyBag
    /\ comments = {} /\ commentSeq = 0
    /\ files = {p.image_url : p \in posts}
    /\ fkOn = TRUE
    /\ reqs = EmptyBag
    /\ quota = HomeQuota
    /\ browser = [MountEffect(HandleLogin([Closed EXCEPT !.open = TRUE],
                       TokenJson(IssueToken(1, Text(Alice)), 1, Text(Alice))))
                     EXCEPT !.path = "/", !.posts = FetchedPosts(Num(1))]

SpecHome == InitHome /\ [][NextHome]_vars

-----------------------------------------------------------------------------
(* One visit of the application: App mounts over what an earlier visit    *)
(* left in localStorage, the visitor logs in through the Login form, logs  *)
(* out through the Navbar and follows links.                               *)

SessionQuota == 2

\* localStorage.getItem returns a value for each of the three keys
HoldsSession(st) ==
    st.token # NoToken /\ st.userId # Undefined /\ st.username # Undefined

\* what handleLogin left in localStorage in an earlier visit of alice
StoredSession ==
    HandleLogin(Closed, TokenJson(IssueToken(1, Text(Alice)), 1, Text(Alice))).storage

\* useEffect(() => {...}, []) after the first render
AppMount ==
    /\ browser.open /\ ~browser.mounted
    /\ browser' = Render(MountEffect(browser))
    /\ UNCHANGED <<store, fkOn, reqs, quota>>

\* Login.jsx handleSubmit, up to the fetch
LoginSubmit ==
    /\ browser.open /\ browser.mounted /\ browser.path = "/login"
    /\ LoginRequest

\* Navbar: onClick={onLogout}
AppHandleLogout ==
    /\ browser.open /\ browser.mounted /\ browser.isAuthenticated
    /\ browser' = Render(HandleLogout(browser))
    /\ UNCHANGED <<store, fkOn, reqs, quota>>

\* a <Link to=...> of the Navbar or of the Login and Register views
AppNavigate ==
    /\ browser.open /\ browser.mounted
    /\ \E to \in Protected \cup Public :
         browser' = Render([browser EXCEPT !.path = to])
    /\ UNCHANGED <<store, fkOn, reqs, quota>>

NextSession ==
    \/ AppMount
    \/ LoginSubmit
    \/ AppHandleLogout
    \/ AppNavigate
    \/ \E r \in InFlight : LoginSelect(r)
    \/ \E r \in InFlight : LoginCompare(r)
    \/ \E r \in InFlight : Deliver(r)

InitSession ==
    /\ users = SeedUsers /\ userSeq = Cardinality(SeedUsers)
    /\ posts = {SeedPost} /\ postSeq = Cardinality(posts)
    /\ likes = EmptyBag /\ follows = EmptyBag
    /\ comments = {} /\ commentSeq = 0
    /\ files = {p.image_url : p \in posts}
    /\ fkOn = TRUE
    /\ reqs = EmptyBag
    /\ quota = SessionQuota
    /\ \E st \in {NoStorage, StoredSession}, at \in Protected \cup Public :
         browser = Render([Closed EXCEPT !.open = TRUE, !.storage = st, !.path = at])

SpecSession == InitSession /\ [][NextSession]_vars

\* profiles while posts are published and users follow and unfollow
NextProfile ==
    \/ CreatePostRequest
    \/ FollowRequest
    \/ UnfollowRequest
    \/ GetUserRequest
    \/ \E r \in InFlight : CreatePostUpload(r)
    \/ \E r \in InFlight : CreatePostInsert(r)
    \/ \E r \in InFlight : FollowInsert(r)
    \/ \E r \in InFlight : UnfollowDelete(r)
    \/ \E r \in InFlight : GetUserSelect(r)
    \/ \E r \in InFlight : Deliver(r)

\* bob may follow alice already
SeedFollows == {EmptyBag, SetToBag({FollowRow(Num(2), Num(1))})}

\* alice has published a post; the database file was created by this server
InitProfile ==
    /\ users = SeedUsers /\ userSeq = Cardinality(SeedUsers)
    /\ posts = {SeedPost} /\ postSeq = Cardinality(posts)
    /\ likes = EmptyBag /\ follows \in SeedFollows
    /\ comments = {} /\ commentSeq = 0
    /\ files = {p.image_url : p \in posts}
    /\ fkOn = TRUE
    /\ reqs = EmptyBag /\ browser = Closed
    /\ quota = ProfileQuota

SpecProfile == InitProfile /\ [][NextProfile]_vars

\* the feed while posts are published and liked
NextPosts ==
    \/ CreatePostRequest
    \/ ListPostsRequest
    \/ LikeRequest
    \/ \E r \in InFlight : CreatePostUpload(r)
    \/ \E r \in InFlight : CreatePostInsert(r)
    \/ \E r \in InFlight : ListPostsSelect(r)
    \/ \E r \in InFlight : LikeSelect(r)
    \/ \E r \in InFlight : LikeDelete(r)
    \/ \E r \in InFlight : LikeInsert(r)
    \/ \E r \in InFlight : Deliver(r)

\* bob may have commented on alice's post
SeedComment == [id |-> 1, user_id |-> 2, post_id |-> 1, content |-> <<"o", "k">>]

InitPosts ==
    /\ users = SeedUsers /\ userSeq = Cardinality(SeedUsers)
    /\ posts = {SeedPost} /\ postSeq = Cardinality(posts)
    /\ likes \in SeedLikes /\ follows = EmptyBag
    /\ comments \in {{}, {SeedComment}} /\ commentSeq = Cardinality(comments)
    /\ files = {p.image_url : p \in posts}
    /\ fkOn = TRUE
    /\ reqs = EmptyBag /\ browser = Closed
    /\ quota = PostsQuota

SpecPosts == InitPosts /\ [][NextPosts]_vars

\* comments on alice's post, or on a post that does not exist
NextComments ==
    \/ AddCommentRequest
    \/ ListCommentsRequest
    \/ \E r \in InFlight : AddCommentSelect(r)
    \/ \E r \in InFlight : AddCommentInsert(r)
    \/ \E r \in InFlight : AddCommentUsername(r)
    \/ \E r \in InFlight : ListCommentsSelect(r)
    \/ \E r \in InFlight : Deliver(r)

InitComments == InitStore /\ quota = CommentsQuota

SpecComments == InitComments /\ [][NextComments]_vars

-----------------------------------------------------------------------------
(* Registration and login on a fresh database file. *)

InitAuth ==
    /\ users = {} /\ userSeq = 0
    /\ posts = {} /\ postSeq = 0
    /\ likes = EmptyBag /\ follows = EmptyBag
    /\ comments = {} /\ commentSeq = 0
    /\ files = {}
    /\ fkOn = TRUE
    /\ reqs = EmptyBag /\ browser = Closed
    /\ quota = AuthQuota

NextAuth ==
    \/ RegisterRequest
    \/ LoginRequest
    \/ \E r \in InFlight : RegisterSelect(r)
    \/ \E r \in InFlight : RegisterHash(r)
    \/ \E r \in InFlight : RegisterInsert(r)
    \/ \E r \in InFlight : LoginSelect(r)
    \/ \E r \in InFlight : LoginCompare(r)
    \/ \E r \in InFlight : Deliver(r)

SpecAuth == InitAuth /\ [][NextAuth]_vars

-----------------------------------------------------------------------------
(* The whole API: alice, who has written a bio, and carol have registered, *)
(* alice has published a post and may have liked it.                       *)

SeedApiUsers ==
    {[UserRow(1, Alice, AliceMail, BcryptHash(Text(Secret1))) EXCEPT !.bio = <<"h", "i">>],
     UserRow(2, Carol, CarolMail, BcryptHash(Text(Secret2)))}

InitApi ==
    /\ users = SeedApiUsers /\ userSeq = Cardinality(SeedApiUsers)
    /\ posts = {SeedPost} /\ postSeq = Cardinality(posts)
    /\ likes \in SeedLikes /\ follows = EmptyBag
    /\ comments = {} /\ commentSeq = 0
    /\ files = {p.image_url : p \in posts}
    /\ fkOn = TRUE
    /\ reqs = EmptyBag /\ browser = Closed
    /\ quota = ApiQuota

NextApi ==
    \/ NextGate
    \/ RegisterRequest
    \/ LoginRequest
    \/ \E r \in InFlight : RegisterSelect(r)
    \/ \E r \in InFlight : RegisterHash(r)
    \/ \E r \in InFlight : RegisterInsert(r)
    \/ \E r \in InFlight : LoginSelect(r)
    \/ \E r \in InFlight : LoginCompare(r)

SpecApi == InitApi /\ [][NextApi]_vars

-----------------------------------------------------------------------------
(* Registration, login, the like toggle and comments, with every db call   *)
(* and every bcrypt call completing.                                       *)

NextLive ==
    \/ RegisterRequest
    \/ LoginRequest
    \/ LikeRequest
    \/ AddCommentRequest
    \/ \E r \in InFlight : RegisterSelect(r)
    \/ \E r \in InFlight : RegisterHash(r)
    \/ \E r \in InFlight : RegisterInsert(r)
    \/ \E r \in InFlight : LoginSelect(r)
    \/ \E r \in InFlight : LoginCompare(r)
    \/ \E r \in InFlight : LikeSelect(r)
    \/ \E r \in InFlight : LikeDelete(r)
    \/ \E r \in InFlight : LikeInsert(r)
    \/ \E r \in InFlight : AddCommentSelect(r)
    \/ \E r \in InFlight : AddCommentInsert(r)
    \/ \E r \in InFlight : AddCommentUsername(r)
    \/ \E r \in InFlight : Deliver(r)

InitLive ==
    /\ users = SeedApiUsers /\ userSeq = Cardinality(SeedApiUsers)
    /\ posts = {SeedPost} /\ postSeq = Cardinality(posts)
    /\ likes \in SeedLikes /\ follows = EmptyBag
    /\ comments = {} /\ commentSeq = 0
    /\ files = {p.image_url : p \in posts}
    /\ fkOn = TRUE
    /\ reqs = EmptyBag /\ browser = Closed
    /\ quota = LiveQuota

\* the callback a waiting request has registered: the event loop runs it when
\* the call completes (a step that neither accepts nor delivers)
Callback ==
    /\ NextLive
    /\ quota' = quota
    /\ BagCardinality(reqs') = BagCardinality(reqs)

\* every call completes and its callback runs; the client reads the answer
Fairness == WF_vars(Callback) /\ WF_vars(\E r \in InFlight : Deliver(r))

SpecLive == InitLive /\ [][NextLive]_vars /\ Fairness

-----------------------------------------------------------------------------
(* The profile route of the standalone server of server.js. *)

NextStandalone ==
    \/ AppGetUserRequest
    \/ \E r \in InFlight : AppGetUserSelect(r)
    \/ \E r \in InFlight : Deliver(r)

InitStandalone == InitStore /\ quota = StandaloneQuota

SpecStandalone == InitStandalone /\ [][NextStandalone]_vars

-----------------------------------------------------------------------------
(* Properties *)

Answered == {d \in InFlight : d.pc = "done"}
Authenticated(d) == d.user # NoUser

\* request r takes its last step and is answered as d
Completes(r, d) ==
    /\ r.pc # "done" /\ d.pc = "done"
    /\ d.route = r.route /\ d.header = r.header /\ d.param = r.param
    /\ reqs' = (reqs (-) SetToBag({r})) (+) SetToBag({d})

\* C1: a like toggle that shares no moment with another request on its
\* (user, post) row, for an existing post, inserts exactly the one row and
\* answers "liked" when the row was absent, deletes it and answers "unliked"
\* when it was present, and changes no other row.
C1_SequentialToggle ==
    [][\A r \in InFlight : \A d \in BagToSet(reqs') :
         ( /\ r.route = "like" /\ r.pc \in {"insert", "delete"}
           /\ ~r.overlap /\ PostExists(ToInteger(r.param))
           /\ Completes(r, d) )
         => LET row == LikeRow(r.user.id, r.param) IN
            /\ d.status = 200
            /\ IF BagIn(row, likes)
               THEN /\ d.json.action = "unliked"
                    /\ likes' = DeleteRow(likes, row)
                    /\ CopiesIn(row, likes') = 0
               ELSE /\ d.json.action = "liked"
                    /\ likes' = likes (+) SetToBag({row})
                    /\ CopiesIn(row, likes') = 1]_vars

\* a second toggle by the same user on the same post, after the first one
\* was answered, took the like away again while the other user's like stays
C1_Witness ==
    \E d \in Answered :
        /\ d.route = "like" /\ ~d.overlap /\ d.json.action = "unliked"
        /\ PostExists(ToInteger(d.param))
        /\ ~BagIn(LikeRow(d.user.id, d.param), likes)
        /\ likes # EmptyBag

\* C2: the store never holds two like rows for one (user_id, post_id) nor
\* two follow rows for one (follower_id, following_id).
C2_UniqueRows ==
    /\ \A row \in BagToSet(likes) : CopiesIn(row, likes) = 1
    /\ \A row \in BagToSet(follows) : CopiesIn(row, follows) = 1

\* two overlapping requests tried to insert the same row and the store
\* turned the second insert down
C2_Witness ==
    \E d \in Answered :
        /\ d.overlap /\ d.writes = 1
        /\ \/ d.route = "like" /\ d.status = 500
              /\ BagIn(LikeRow(d.user.id, d.param), likes)
           \/ d.route = "follow" /\ d.status = 400
              /\ BagIn(FollowRow(d.user.id, d.param), follows)

\* C3: a like toggle on an existing post is never answered 500, also when
\* it races with another toggle of the same user on the same post.
C3_RaceAbsorbed ==
    \A d \in Answered :
        (d.route = "like" /\ Authenticated(d) /\ PostExists(ToInteger(d.param)))
        => d.status # 500

\* C4: no follow row has follower_id = following_id, and a follow request
\* whose path id is the caller's own id is answered 400 without a write.
C4_NoSelfFollow ==
    /\ \A row \in BagToSet(follows) : row.follower_id # row.following_id
    /\ \A d \in Answered :
         (d.route = "follow" /\ Authenticated(d)
            /\ ToInteger(d.param) = ToInteger(d.user.id))
         => (d.status = 400 /\ d.writes = 0)

\* the routes of the posts router and of the users router
GatedRoutes == {"createPost", "listPosts", "like", "unlike", "addComment",
                "listComments", "getUser", "userPosts", "updateProfile",
                "follow", "unfollow"}

\* the request record d is new in the step: the request arrived, or a
\* callback of it ran
Arrives(d) == CopiesIn(d, reqs') > CopiesIn(d, reqs)

\* C5: a request to a route of the posts or users router that carries no
\* token is answered 401 in the turn of its arrival, one whose token fails
\* verification 403; it never waits for a db call or an upload, it has
\* read nothing, written nothing and stored no file, and the step leaves the
\* tables and the uploads directory as they were.
C5_TokenGate ==
    [][\A d \in BagToSet(reqs') :
        LET token == HeaderToken(d.header)
            absent == token = NoToken
            invalid == ~absent /\ JwtVerify(token, JWT_SECRET).err
        IN (d.route \in GatedRoutes /\ Arrives(d) /\ (absent \/ invalid))
           => /\ d.pc = "done"
              /\ d.status = IF absent THEN 401 ELSE 403
              /\ d.json.error = IF absent THEN "Authentication required" ELSE "Invalid token"
              /\ d.reads = 0 /\ d.writes = 0 /\ d.stored = 0
              /\ store' = store]_vars

\* an upload of a picture with a token of another key was answered 403
C5_Witness ==
    \E d \in Answered :
        /\ d.route \in {"createPost", "updateProfile"}
        /\ d.header = Bearer(ForgedToken) /\ FileFilter(d.body.file)
        /\ d.status = 403 /\ files = {p.image_url : p \in posts}

\* C6: a register request with a well-formed body that creates no user row
\* is answered with the conflict error (400, "bestaat al"), whatever the
\* interleaving with another register request of the same username or email.
C6_ConflictNever500 ==
    \A d \in Answered :
        (d.route = "register" /\ RegisterValidation(d.body) = ""
            /\ d.body.password.t = "string" /\ d.status # 201)
        => (d.status = 400 /\ d.json.error = "Deze gebruikersnaam of email bestaat al")

\* C7: no two user rows share a username, an email or an id.
C7_UniqueUsers ==
    \A u \in users : \A v \in users \ {u} :
        u.username # v.username /\ u.email # v.email /\ u.id # v.id

\* two registrations of one username both passed the SELECT and the store
\* refused the second INSERT
C7_Witness ==
    /\ users # {}
    /\ \E d \in Answered :
         d.route = "register" /\ d.writes = 1 /\ d.json.details = "UNIQUE constraint failed"

\* C8: the token in a 201 answer of register and in a 200 answer of login
\* passes authenticateToken, and the id it yields as req.user.id, like the id
\* of the answer, is the id of the user row that holds the request's email
\* (for register: and the request's username).
C8_TokenRoundTrip ==
    \A d \in Answered :
        (d.route \in {"register", "login"} /\ d.status \in {200, 201})
        => LET a == AuthenticateToken(Bearer(d.json.token)) IN
           /\ a.status = 0
           /\ \E u \in users :
                /\ u.email = d.body.email.s
                /\ d.route = "register" => u.username = d.body.username.s
                /\ a.user.id = Num(u.id)
                /\ d.json.id = Num(u.id)
                /\ d.json.username = Text(u.username)

\* a login with the first account's email and password succeeded after a
\* second account was registered
C8_Witness ==
    \E d \in Answered :
        /\ d.route = "login" /\ d.status = 200
        /\ d.json.id = Num(1) /\ userSeq = 2

\* C9: a login that yields no token is answered 401 "Invalid email or
\* password", the answer an unknown email gets, whether or not the email is
\* that of a stored user.
C9_LoginFailuresAlike ==
    \A d \in Answered :
        (d.route = "login" /\ d.json.token = NoToken)
        => (d.status = 401 /\ d.json.error = "Invalid email or password")

\* C10: an authenticated like or unlike of a post id that names no post is
\* answered 404 and no like row for a missing post is ever stored.
C10_MissingPost404 ==
    /\ \A d \in Answered :
         (d.route \in {"like", "unlike"} /\ Authenticated(d)
            /\ ~PostExists(ToInteger(d.param)))
         => d.status = 404
    /\ \A row \in BagToSet(likes) : PostExists(row.post_id)

\* C11: a follow request whose INSERT meets a follow row of its (caller,
\* target) pair is answered 400 and leaves the follows table as it is; a
\* follow request for a pair of existing users is never answered 500, and of
\* two that run at the same time the one whose INSERT comes first adds the
\* row and is answered 200.
C11_DuplicateFollow400 ==
    [][\A r \in InFlight : \A d \in BagToSet(reqs') :
        (r.route = "follow" /\ r.pc = "insert" /\ Completes(r, d))
        => LET row == [follower_id |-> r.user.id.n, following_id |-> r.param.n] IN
           IF BagIn(row, follows)
           THEN d.status = 400 /\ follows' = follows
           ELSE (\E u \in users : u.id = row.following_id)
                => /\ d.status = 200
                   /\ follows' = follows (+) SetToBag({row})]_vars

\* two follow requests of one pair overlapped: one was answered 200, the
\* other 400, and the pair has its one row
C11_Witness ==
    \E d \in Answered : \E e \in Answered :
        /\ d.route = "follow" /\ e.route = "follow"
        /\ d.overlap /\ e.overlap
        /\ d.user = e.user /\ d.param = e.param
        /\ d.status = 200 /\ e.status = 400
        /\ CopiesIn([follower_id |-> d.user.id.n, following_id |-> d.param.n], follows) = 1

\* C12: the answer of GET /users/:id is 404 when no user row has the id;
\* otherwise it is 200 and carries, as the store holds them when the query
\* runs, the number of post rows of the user as post_count, the number of
\* follow rows with the user as following_id as followers_count and the
\* number with the user as follower_id as following_count.
C12_ProfileCounts ==
    [][\A r \in InFlight : \A d \in BagToSet(reqs') :
        (r.route = "getUser" /\ r.pc = "select" /\ Completes(r, d))
        => LET id == r.param.n
               followers == [f \in {x \in DOMAIN follows : x.following_id = id} |-> follows[f]]
               following == [f \in {x \in DOMAIN follows : x.follower_id = id} |-> follows[f]]
           IN IF \A u \in users : u.id # id
              THEN d.status = 404
              ELSE /\ d.status = 200
                   /\ Cardinality(d.json.data) = 1
                   /\ \A row \in d.json.data :
                        /\ row.id = id
                        /\ row.post_count = Cardinality({p \in posts : p.user_id = id})
                        /\ row.followers_count = BagCardinality(followers)
                        /\ row.following_count = BagCardinality(following)]_vars

\* alice's profile was answered after she published two posts and while she
\* has a follower: the three counts differ
C12_Witness ==
    \E d \in Answered :
        /\ d.route = "getUser" /\ d.status = 200
        /\ \E row \in d.json.data :
             row.post_count = 2 /\ row.followers_count = 1 /\ row.following_count = 0

\* C13: a create-post request without an image, with an image whose
\* extension is not jpg, jpeg, png or gif, or with one over 5 MiB is not
\* answered 200 and runs no INSERT; every post row has an image_url that
\* names a stored file, and the row a 200 answer reports is in the table with
\* the file the request stored as its image_url.
C13_NoPostWithoutImage ==
    /\ \A p \in posts : p.image_url # 0 /\ p.image_url \in files
    /\ \A d \in Answered :
         d.route = "createPost" =>
            LET f == d.body.file
                refused == \/ ~f.present
                           \/ f.ext \notin {"jpg", "jpeg", "png", "gif"}
                           \/ f.size > 5 * 1024 * 1024
            IN /\ refused => (d.status # 200 /\ d.writes = 0 /\ d.stored = 0)
               /\ d.status = 200 =>
                    /\ d.stored = 1 /\ d.filename \in files
                    /\ \E p \in posts : /\ d.json.data = {p}
                                        /\ p.image_url = d.filename
                                        /\ p.id = d.json.id.n

\* one create-post was refused for its file after the token was accepted,
\* another stored its picture and added its row
C13_Witness ==
    /\ \E d \in Answered :
         /\ d.route = "createPost" /\ Authenticated(d)
         /\ d.body.file.present /\ d.status # 200
    /\ \E d \in Answered : d.route = "createPost" /\ d.status = 200
    /\ Cardinality(posts) = 2

\* C14: a create-post or update-profile request whose file is refused for
\* its extension or its size is answered 400.
C14_RejectedUpload400 ==
    \A d \in Answered :
        LET f == d.body.file IN
        ( /\ d.route \in {"createPost", "updateProfile"} /\ Authenticated(d)
          /\ f.present
          /\ (f.ext \notin {"jpg", "jpeg", "png", "gif"} \/ f.size > 5 * 1024 * 1024) )
        => d.status = 400

\* a text of blanks only
Blank(chars) == \A i \in 1..Len(chars) : chars[i] = " "

IsTrimOf(t, s) ==
    /\ t # << >> => (t[1] # " " /\ t[Len(t)] # " ")
    /\ \E i \in 0..Len(s) :
         /\ i + Len(t) <= Len(s)
         /\ SubSeq(s, i + 1, i + Len(t)) = t
         /\ \A k \in (1..i) \cup ((i + Len(t) + 1)..Len(s)) : s[k] = " "

\* C16: every comment row has a content that is not empty and has no blank
\* at either end; a row enters the table in a step of an add-comment request,
\* with the id of that request's token as user_id and the trimmed content of
\* its body; and the 201 answer carries the row's id, user_id and content and
\* the username of that user.
C16_CommentRows ==
    [][/\ \A c \in comments' :
            c.content # << >> /\ c.content[1] # " " /\ c.content[Len(c.content)] # " "
       /\ \A c \in comments' \ comments :
            \E r \in InFlight :
                /\ r.route = "addComment" /\ r.pc = "insert"
                /\ c.user_id = r.user.id.n /\ c.post_id = r.param.n
                /\ IsTrimOf(c.content, r.body.content.s)
       /\ \A d \in BagToSet(reqs') :
            (d.route = "addComment" /\ d.status = 201 /\ Arrives(d))
            => \E c \in comments : \E u \in users :
                /\ c.id = d.json.id.n /\ c.user_id = d.user.id.n
                /\ IsTrimOf(c.content, d.body.content.s)
                /\ u.id = c.user_id /\ d.json.username = Text(u.username)
                /\ \A row \in d.json.data :
                     row.id = c.id /\ row.user_id = c.user_id /\ row.content = c.content
                /\ d.json.data # {}]_vars

\* bob's comment " ok " was stored as "ok" and answered 201
C16_Witness ==
    \E d \in Answered : \E c \in comments :
        /\ d.route = "addComment" /\ d.status = 201
        /\ d.body.content.s = <<" ", "o", "k", " ">>
        /\ c.id = d.json.id.n /\ c.content = <<"o", "k">> /\ c.user_id = 2

\* C17: in every step of the API each user row stays, with its id, username,
\* email and password; a row changes only in the UPDATE of a profile request
\* of the user the row belongs to, which sets bio to the bio of the body when
\* the body has one and leaves it otherwise, and sets profile_picture to the
\* file the request stored when it stored one and leaves it otherwise; a
\* profile request with neither is answered 400 and changes nothing.
C17_ProfileFrame ==
    [][/\ \A u \in users : \E v \in users' :
            /\ v.id = u.id /\ v.username = u.username
            /\ v.email = u.email /\ v.password = u.password
            /\ v # u =>
                 \E r \in InFlight :
                    /\ r.route = "updateProfile" /\ r.pc = "update"
                    /\ r.user.id = Num(u.id)
                    /\ v.bio = IF r.body.bio.t = "string" THEN r.body.bio.s ELSE u.bio
                    /\ v.profile_picture =
                          IF r.stored = 1 THEN r.filename ELSE u.profile_picture
       /\ \A r \in InFlight : \A d \in BagToSet(reqs') :
            (r.route = "updateProfile" /\ r.pc = "update" /\ Completes(r, d))
            => \E v \in users' :
                /\ Num(v.id) = r.user.id
                /\ r.body.bio.t = "string" => v.bio = r.body.bio.s
                /\ r.stored = 1 => (v.profile_picture = r.filename /\ r.filename \in files)
       /\ \A d \in BagToSet(reqs') :
            ( /\ d.route = "updateProfile" /\ d.pc = "done" /\ Arrives(d)
              /\ Authenticated(d)
              /\ d.body.bio.t = "undefined" /\ ~d.body.file.present )
            => (d.status = 400 /\ d.writes = 0 /\ store' = store)]_vars

\* alice sent a picture and no bio: her row has the picture and the bio she
\* had, carol's row is as it was
C17_Witness ==
    \E d \in Answered : \E a \in users : \E c \in users :
        /\ d.route = "updateProfile" /\ d.status = 200
        /\ d.body.bio.t = "undefined" /\ d.user.id = Num(1)
        /\ a.id = 1 /\ a.bio = <<"h", "i">> /\ a.profile_picture = d.filename
        /\ d.filename # 0
        /\ c.id = 2 /\ c.profile_picture = 0 /\ c.bio = << >>

\* C18: the answer of GET /posts lists every post row once, a post with a
\* greater id before one with a smaller id, and a post created later has the
\* greater id; like_count of a listed post is the number of like rows of the
\* post, comment_count the number of its comment rows, is_liked 1 when the
\* caller has a like row for the post and 0 otherwise.
C18_ListPosts ==
    [][/\ \A p \in posts' \ posts : \A q \in posts : p.id > q.id
       /\ \A d \in BagToSet(reqs') :
            (d.route = "listPosts" /\ d.pc = "done" /\ d.status = 200 /\ Arrives(d))
            => LET list == d.json.list
               IN /\ Len(list) = Cardinality(posts)
                  /\ \A p \in posts : \E i \in 1..Len(list) :
                       /\ list[i].id = p.id /\ list[i].user_id = p.user_id
                       /\ list[i].image_url = p.image_url
                       /\ list[i].caption = p.caption
                       /\ \A j \in 1..Len(list) : list[j].id = p.id => j = i
                       /\ list[i].like_count =
                            Copies(likes, {l \in BagToSet(likes) : l.post_id = p.id})
                       /\ list[i].comment_count =
                            Cardinality({c \in comments : c.post_id = p.id})
                       /\ list[i].is_liked =
                            IF \E l \in BagToSet(likes) :
                                  l.post_id = p.id /\ Num(l.user_id) = d.user.id
                            THEN 1 ELSE 0
                  /\ \A i \in 1..Len(list) : \A j \in 1..Len(list) :
                       i < j => list[i].id > list[j].id]_vars

\* a list of two posts, the newer first, the older one liked by the caller
C18_Witness ==
    \E d \in Answered :
        /\ d.route = "listPosts" /\ d.status = 200
        /\ Len(d.json.list) = 2
        /\ d.json.list[1].id = 2 /\ d.json.list[1].is_liked = 0
        /\ d.json.list[2].id = 1 /\ d.json.list[2].is_liked = 1
        /\ d.json.list[2].like_count = 1

\* C19: no answer holds the password field of a user row, neither in its
\* body nor in a row of its body.
C19_NoPasswordReturned ==
    \A d \in Answered :
        /\ "password" \notin DOMAIN d.json
        /\ d.route # "static" =>
             \A row \in d.json.data : "password" \notin DOMAIN row
        /\ \A i \in 1..Len(d.json.list) : "password" \notin DOMAIN d.json.list[i]

\* C20: when the INSERT of a registration fails in the store, the request is
\* answered 500 and its body holds nothing of the store's error text.
C20_StoreFailureGeneric ==
    [][\A r \in InFlight : \A d \in BagToSet(reqs') :
         ( /\ r.route = "register" /\ r.pc = "insert" /\ Completes(r, d)
           /\ InsertUser(r.body.username, r.body.email, r.hashed).err # "" )
         => /\ d.status = 500
            /\ d.json.details = ""
            /\ d.json.error # InsertUser(r.body.username, r.body.email, r.hashed).err
            /\ d.json.message # InsertUser(r.body.username, r.body.email, r.hashed).err]_vars

Missing(v) == v.t = "undefined" \/ (v.t = "string" /\ v.s = << >>)

\* e is local@domain.tld: three non-empty parts without "@" or blank
LocalAtDomainTld(e) ==
    \E i \in 2..Len(e), j \in 4..(Len(e) - 1) :
        /\ i + 1 < j /\ e[i] = "@" /\ e[j] = "."
        /\ \A k \in 1..(i - 1) : e[k] \notin {"@", " "}
        /\ \A k \in (i + 1)..Len(e) : e[k] \notin {"@", " "}

\* C21: a register request whose username, email or password is missing,
\* whose password is a string of fewer than 6 characters or whose email is
\* not local@domain.tld is answered 400 in the turn of its arrival, having
\* read nothing and written nothing, and the tables are unchanged.
C21_RegisterValidation ==
    [][\A d \in BagToSet(reqs') :
         ( /\ d.route = "register" /\ Arrives(d)
           /\ \/ Missing(d.body.username) \/ Missing(d.body.email)
              \/ Missing(d.body.password)
              \/ (d.body.password.t = "string" /\ Len(d.body.password.s) < 6)
              \/ (d.body.email.t = "string" /\ ~LocalAtDomainTld(d.body.email.s)) )
         => /\ d.pc = "done" /\ d.status = 400
            /\ d.reads = 0 /\ d.writes = 0
            /\ store' = store]_vars

\* a registration with a fresh name and a well-formed email refused for its
\* three-character password
C21_Witness ==
    \E d \in Answered :
        /\ d.route = "register" /\ d.status = 400 /\ d.reads = 0
        /\ d.body.username = Text(Alice) /\ d.body.email = Text(AliceMail)
        /\ d.body.password = Text(<<"a", "b", "c">>)
        /\ users = {}

\* C22: a like toggle answers "unliked" only in a step that removes the like
\* row of its (user, post) pair and "liked" only in a step that inserts it
\* (so that the liked answers minus the unliked answers count the rows).
C22_ToggleTally ==
    [][\A r \in InFlight : \A d \in BagToSet(reqs') :
         (r.route = "like" /\ Completes(r, d) /\ d.status = 200)
         => LET row == LikeRow(r.user.id, r.param)
            IN /\ d.json.action = "unliked"
                    => CopiesIn(row, likes') = CopiesIn(row, likes) - 1
               /\ d.json.action = "liked"
                    => CopiesIn(row, likes') = CopiesIn(row, likes) + 1]_vars

\* C23: every like row names an existing post, every follow row an existing
\* followed user, every comment row an existing post.
C23_ReferentialIntegrity ==
    /\ \A l \in BagToSet(likes) : PostExists(l.post_id)
    /\ \A f \in BagToSet(follows) : UserExists(f.following_id)
    /\ \A c \in comments : PostExists(c.post_id)

\* the id in the payload of the token the request carries
TokenId(r) == JwtVerify(HeaderToken(r.header), JWT_SECRET).user.id.n

\* C24: the identity a handler acts for is the same whatever user_id the body
\* carries; every post, like, comment or follow row a step creates or removes
\* and every user row it changes has the id of the token of the request that
\* takes the step, and the rows in the answers of create-post and add-comment
\* carry that id.
C24_TokenIdentity ==
    [][/\ \A r \in InFlight : \A uid \in BodyUserIds :
            r.pc # "done"
            => ActingUser([r EXCEPT !.body.user_id = uid]) = ActingUser(r)
       /\ \A p \in posts' \ posts : \E r \in InFlight :
            r.route = "createPost" /\ r.pc = "insert" /\ p.user_id = TokenId(r)
       /\ \A c \in comments' \ comments : \E r \in InFlight :
            r.route = "addComment" /\ r.pc = "insert" /\ c.user_id = TokenId(r)
       /\ \A l \in BagToSet(likes) \cup BagToSet(likes') :
            CopiesIn(l, likes') # CopiesIn(l, likes)
            => \E r \in InFlight :
                 /\ r.route = "like" /\ r.pc \in {"insert", "delete"}
                 /\ l.user_id = TokenId(r) /\ l.post_id = ToInteger(r.param)
       /\ \A f \in BagToSet(follows') :
            CopiesIn(f, follows') > CopiesIn(f, follows)
            => \E r \in InFlight :
                 /\ r.route = "follow" /\ r.pc = "insert"
                 /\ f.follower_id = TokenId(r)
       /\ \A u \in users \ users' : \E r \in InFlight :
            r.route = "updateProfile" /\ r.pc = "update" /\ u.id = TokenId(r)
       /\ \A r \in InFlight : \A d \in BagToSet(reqs') :
            ( /\ Completes(r, d) /\ d.status \in {200, 201}
              /\ r.route \in {"createPost", "addComment"} )
            => /\ d.json.data # {}
               /\ \A row \in d.json.data : row.user_id = TokenId(r)]_vars

\* alice's token with bob's id in the body: the post is alice's
C24_Witness ==
    \E d \in Answered : \E p \in posts :
        /\ d.route = "createPost" /\ d.status = 200
        /\ TokenId(d) = 1 /\ d.body.user_id = Num(2)
        /\ d.json.id = Num(p.id) /\ p.user_id = 1

\* C25: an unfollow request is answered 200 and its DELETE leaves no follow
\* row (caller, target) and every other follow row as it was, also when the
\* pair had no row (then the table is unchanged); removing the row a follow
\* of a pair without a row would insert gives back the table as it is.
C25_Unfollow ==
    [][/\ \A r \in InFlight : \A d \in BagToSet(reqs') :
            (r.route = "unfollow" /\ r.pc = "delete" /\ Completes(r, d))
            => LET row == [follower_id |-> TokenId(r), following_id |-> r.param.n] IN
               /\ d.status = 200
               /\ ~BagIn(row, follows')
               /\ \A f \in BagToSet(follows) \cup BagToSet(follows') :
                    f # row => CopiesIn(f, follows') = CopiesIn(f, follows)
               /\ ~BagIn(row, follows) => follows' = follows
       /\ \A u \in users : \A t \in users :
            LET res == InsertFollow(Num(u.id), Str(t.id)) IN
            res.err = ""
            => /\ res.table # follows
               /\ DeleteRow(res.table, FollowRow(Num(u.id), Str(t.id))) = follows]_vars

\* two unfollow requests of one pair, one after the other, both answered
\* with success; the pair has no row
C25_Witness ==
    \E d \in Answered :
        /\ d.route = "unfollow" /\ d.status = 200 /\ ~d.overlap
        /\ CopiesIn(d, reqs) = 2
        /\ ~BagIn(FollowRow(d.user.id, d.param), follows)

\* C26: the answer of GET /users/:id/posts is the list GET /posts gives the
\* same caller at the same moment, restricted to the posts of user :id, in
\* the same order.
C26_UserPostsAsFeed ==
    [][\A r \in InFlight : \A d \in BagToSet(reqs') :
         (r.route = "userPosts" /\ r.pc = "select" /\ Completes(r, d))
         => LET feed == OrderByIdDesc({PostView(p, r.user.id) : p \in posts})
                Own(x) == x.user_id = ToInteger(r.param)
            IN d.status = 200 /\ d.json.list = SelectSeq(feed, Own)]_vars

Pending == {r \in InFlight : r.pc # "done"}

C28_FeedConsistent ==
    (browser.open /\ browser.path = "/" /\ browser.error = "" /\ reqs = EmptyBag)
    => \A post \in browser.posts :
         /\ post.is_liked = BagIn(LikeRow(browser.user.id, Num(post.id)), likes)
         /\ post.like_count =
              Copies(likes, {l \in BagToSet(likes) : l.post_id = post.id})

\* C29: once the mount effect of App has run, isAuthenticated is true exactly
\* when localStorage holds token, userId and username; a protected view
\* (feed, profile, create-post) is shown only while isAuthenticated is true
\* and a visitor who is not authenticated is at the login or register view;
\* the step that ends a session (handleLogout) leaves localStorage without
\* the three keys, user null and the login view.
C29_SessionState ==
    /\ [](browser.mounted =>
            /\ browser.isAuthenticated <=> HoldsSession(browser.storage)
            /\ browser.path \in Protected => browser.isAuthenticated
            /\ ~browser.isAuthenticated => browser.path \in Public)
    /\ [][(browser.isAuthenticated /\ ~browser'.isAuthenticated)
            => /\ browser'.storage = NoStorage
               /\ browser'.user = NoUser
               /\ browser'.path = "/login"]_vars

\* bob has logged in through the form after the mount and sees a protected view
C29_Witness ==
    /\ browser.mounted /\ browser.isAuthenticated
    /\ browser.user.username = Text(Bob)
    /\ browser.storage.username = Text(Bob)
    /\ browser.path = "/create-post"

====
